---- MODULE Spec2Model ----
(***************************************************************************)
(* Model of the two batch jobs of jira-reporting:                          *)
(*   refresh_jira_data    (jira_data.py)    issue snapshot pipeline         *)
(*   refresh_sprint_data  (jira_sprints.py) sprint time-tracking pipeline   *)
(* together with the transformation helpers of core.py and the row-wise    *)
(* upsert of db.py.                                                         *)
(*                                                                          *)
(* Python values: None is the empty tuple <<>>, a present value v is the   *)
(* one-element tuple <<v>>.  A call either returns a value or raises: its  *)
(* outcome is a record [err, val] with err = "none" when it returned.      *)
(***************************************************************************)
EXTENDS Integers, Sequences, FiniteSets, TLC

\* ------------------------------------------------------------------ bounds
\* Number of configured queries (filters.json) / of projects of the tracker.
NumUnits == 2
\* Largest number of issues the tracker holds at one time.
MaxIssues == 2
\* Largest number of sprint memberships in an input of the label resolver.
MaxSprints == 3
\* Largest number of worklog entries in an input of the time aggregator.
MaxWorklogs == 2
\* Instants (microseconds) range over 0..MaxTime.
MaxTime == 3

\* ------------------------------------------------------------ Python values
None == <<>>
Some(v) == <<v>>
Val(o) == o[1]

NoError == "none"
Ok(v) == [err |-> NoError, val |-> v]
Raise(e) == [err |-> e, val |-> None]

Units == 1..NumUnits

\* The elements of a sequence.
Range(s) == {s[i] : i \in DOMAIN s}

\* ------------------------------------------------- core.py: Report helpers

\* max(sequences): the greatest element of a non-empty sequence of integers.
MaxOf(seq) == CHOOSE m \in Range(seq) : \A x \in Range(seq) : x <= m

\* list.index(x): the first position holding x.
IndexOf(seq, x) ==
    CHOOSE i \in DOMAIN seq : seq[i] = x /\ \A j \in 1..(i - 1) : seq[j] # x

\* str(z) of a name: str(None) is the text "None".
Str(o) == IF o = None THEN "None" ELSE Val(o)

\* ", ".join(strs)
RECURSIVE Join(_)
Join(strs) ==
    IF Len(strs) = 0 THEN ""
    ELSE IF Len(strs) = 1 THEN strs[1]
    ELSE strs[1] \o ", " \o Join(Tail(strs))

\* Mutant of get_last_sprint: the name of the last record of the list.
get_last_sprint_last_record(sprint_data) ==
    IF sprint_data = None THEN Raise("TypeError")
    ELSE LET lst == Val(sprint_data)
         IN  IF Len(lst) = 0 THEN Raise("ValueError")
             ELSE Ok(lst[Len(lst)].name)

\* Mutant of get_last_sprint: an empty list gives None instead of raising.
get_last_sprint_none_on_empty(sprint_data) ==
    IF sprint_data = None THEN Ok(None)
    ELSE LET lst == Val(sprint_data)
             sequences == [i \in DOMAIN lst |-> lst[i].id]
         IN  IF Len(lst) = 0 THEN Ok(None)
             ELSE Ok(lst[IndexOf(sequences, MaxOf(sequences))].name)

\* Report.get_last_sprint.  sprint_data is the value of customfield_10020:
\* None, or a list of records [id, name].  Iterating None raises TypeError,
\* max([]) raises ValueError.
get_last_sprint(sprint_data) ==
    IF sprint_data = None THEN Raise("TypeError")
    ELSE LET lst == Val(sprint_data)
             sequences == [i \in DOMAIN lst |-> lst[i].id]
             sprint_names == [i \in DOMAIN lst |-> lst[i].name]
         IN  IF Len(lst) = 0 THEN Raise("ValueError")
             ELSE Ok(sprint_names[IndexOf(sequences, MaxOf(sequences))])

\* Report.get_all_sprint_data
get_all_sprint_data(sprint_data) ==
    IF sprint_data = None THEN Raise("TypeError")
    ELSE LET lst == Val(sprint_data)
         IN  Ok(Join([i \in DOMAIN lst |-> Str(lst[i].name)]))

\* util.TASK_FIELDS: field name -> sub-key, None where the field is read
\* directly.
TASK_FIELDS ==
    [issuetype |-> Some("name"), summary |-> None,
     assignee |-> Some("displayName"), reporter |-> Some("displayName"),
     priority |-> Some("name"), status |-> Some("name"),
     resolution |-> Some("name"), created |-> None, updated |-> None,
     duedate |-> None]

\* The order in which fields.items() yields the entries of TASK_FIELDS.
TaskFieldOrder ==
    <<"issuetype", "summary", "assignee", "reporter", "priority", "status",
      "resolution", "created", "updated", "duedate">>

\* Report.get_issue_field_val: the assert that the field is one of the
\* issue's fields, then fields[field_name][field_data_key] when a sub-key is
\* given (TypeError on a None container, KeyError on a container without the
\* sub-key), else fields[field_name].
get_issue_field_val(issue, field_name, field_data_key) ==
    IF field_name \notin DOMAIN issue.fields THEN Raise("AssertionError")
    ELSE LET container == issue.fields[field_name]
         IN  IF field_data_key # None
             THEN IF container = None THEN Raise("TypeError")
                  ELSE IF Val(field_data_key) \notin DOMAIN Val(container)
                       THEN Raise("KeyError")
                       ELSE Ok(Some(Val(container)[Val(field_data_key)]))
             ELSE Ok(container)

\* The texts t with t.lower() == "nan".
NanTexts == {"nan", "naN", "nAn", "nAN", "Nan", "NaN", "NAn", "NAN"}

\* Report.get_issue_data, one field: only the TypeError is caught.
ExtractField(issue, field_name) ==
    LET got == get_issue_field_val(issue, field_name, TASK_FIELDS[field_name])
    IN  IF got.err = "TypeError"
        THEN IF field_name = "resolution" THEN Ok(0) ELSE Ok(None)
        ELSE IF got.err # NoError THEN got
        ELSE IF field_name = "resolution" THEN Ok(1)
        ELSE IF Str(got.val) \in NanTexts THEN Ok(None) ELSE Ok(got.val)

\* The first failing position of a sequence of outcomes, 0 when none fails.
FirstError(res) ==
    IF \A i \in DOMAIN res : res[i].err = NoError THEN 0
    ELSE CHOOSE i \in DOMAIN res :
            res[i].err # NoError /\ \A j \in 1..(i - 1) : res[j].err = NoError

\* A loop that builds one value per element and stops at the first raise.
Collect(res) ==
    IF FirstError(res) = 0 THEN Ok([i \in DOMAIN res |-> res[i].val])
    ELSE Raise(res[FirstError(res)].err)

\* Report.get_issue_data: the mapping field name -> extracted value, or the
\* first exception the loop does not catch.
get_issue_data(issue) ==
    LET got == Collect([i \in DOMAIN TaskFieldOrder |->
                            ExtractField(issue, TaskFieldOrder[i])])
    IN  IF got.err # NoError THEN got
        ELSE Ok([f \in DOMAIN TASK_FIELDS |->
                    got.val[CHOOSE i \in DOMAIN TaskFieldOrder :
                                TaskFieldOrder[i] = f]])

\* jira_data.get_relevant_issue_data, the body of the loop for one issue.
IssueRow(issue) ==
    LET data == get_issue_data(issue)
        sprint_data == get_issue_field_val(issue, "customfield_10020", None)
        last == get_last_sprint(sprint_data.val)
        all == get_all_sprint_data(sprint_data.val)
    IN  IF data.err # NoError THEN data
        ELSE IF sprint_data.err # NoError THEN sprint_data
        ELSE IF last.err # NoError THEN last
        ELSE IF all.err # NoError THEN all
        ELSE Ok([c \in DOMAIN data.val \cup {"last_sprint", "all_sprints", "key"} |->
                    CASE c = "last_sprint" -> last.val
                      [] c = "all_sprints" -> all.val
                      [] c = "key" -> issue.key
                      [] OTHER -> data.val[c]])

\* jira_data.get_relevant_issue_data
get_relevant_issue_data(fetched) ==
    Collect([i \in DOMAIN fetched |-> IssueRow(fetched[i])])

\* core.list_to_df: raises on an empty list, else the table with one column
\* per key of the first row, each column the values in row order.
list_to_df(dict_list) ==
    IF Len(dict_list) > 0
    THEN Ok([k \in DOMAIN dict_list[1] |->
                [i \in DOMAIN dict_list |-> dict_list[i][k]]])
    ELSE Raise("Exception")

\* DataFrame.rename(columns={old: new})
Rename(df, old, new) ==
    [c \in (DOMAIN df \ {old}) \cup {new} |-> IF c = new THEN df[old] ELSE df[c]]

\* len(df): the number of rows of a table; a table without columns has none.
NRows(df) == IF DOMAIN df = {} THEN 0 ELSE Len(df[CHOOSE c \in DOMAIN df : TRUE])

\* pd.DataFrame(): the empty table.
EmptyFrame == [c \in {} |-> <<>>]

\* ------------------------------------------------------------------- db.py

\* db.df_to_rows: one mapping per row of the table, in row order.
df_to_rows(data) ==
    [i \in 1..NRows(data) |-> [c \in DOMAIN data |-> data[c][i]]]

\* The stored rows that conflict with data on the conflict columns.
Conflicting(snk, data, conflicts) ==
    {r \in snk : \A c \in conflicts : r[c] = data[c]}

\* Mutant of write_data: a plain insert, without the on-conflict clause.
write_data_insert_only(snk, data, conflicts, cols) == snk \cup {data}

\* Mutant of write_data: on conflict the time spent in the sprint is added
\* to the stored one instead of replacing it.
write_data_accumulate(snk, data, conflicts, cols) ==
    LET hit == Conflicting(snk, data, conflicts)
    IN  IF hit = {} THEN snk \cup {data}
        ELSE (snk \ hit) \cup
             {[c \in DOMAIN r |->
                 IF c \in cols \ conflicts
                 THEN IF c = "sprint_time_spent" THEN r[c] + data[c] ELSE data[c]
                 ELSE r[c]] : r \in hit}

\* db.write_data: insert into table (cols) values (data) on conflict
\* (conflicts) do update set c = excluded.c for c in cols - conflicts.
\* The table is the set snk of stored rows.
write_data(snk, data, conflicts, cols) ==
    LET hit == Conflicting(snk, data, conflicts)
    IN  IF hit = {} THEN snk \cup {data}
        ELSE (snk \ hit) \cup
             {[c \in DOMAIN r |-> IF c \in cols \ conflicts THEN data[c] ELSE r[c]]
                 : r \in hit}

\* Mutant of SinkAfterFailure: the rows of the row set are written in one
\* transaction, rolled back when a write fails.
SinkRolledBack(before, current) == before

\* db.dataframe_to_db, a write that raises: every earlier conn.execute of the
\* loop was committed on its own, so the table stays as the loop left it.
\* before is the table when dataframe_to_db was called.
SinkAfterFailure(before, current) == current

\* ------------------------------------------------ core.py: ProjectData

\* The instant of a worklog's started text "...%f%z": the wall-clock time
\* local read at UTC offset off.
WorklogInstant(started) == started.local - started.off

\* The instant of a sprint date "...%fZ", parsed naive and given tzinfo UTC.
SprintInstant(date) == date

\* Mutant of worklog_within_sprint: the offset of the worklog is ignored.
worklog_within_sprint_naive(worklog, sprint_data) ==
    /\ SprintInstant(sprint_data.start_date) <= worklog.started.local
    /\ worklog.started.local <= SprintInstant(sprint_data.end_date)

\* ProjectData.worklog_within_sprint
worklog_within_sprint(worklog, sprint_data) ==
    /\ SprintInstant(sprint_data.start_date) <= WorklogInstant(worklog.started)
    /\ WorklogInstant(worklog.started) <= SprintInstant(sprint_data.end_date)

\* ProjectData.get_sprint_time_spent, the loop over the worklogs.
RECURSIVE SprintTime(_, _)
SprintTime(issue_worklogs, sprint_data) ==
    IF Len(issue_worklogs) = 0 THEN 0
    ELSE (IF worklog_within_sprint(Head(issue_worklogs), sprint_data)
          THEN Head(issue_worklogs).time_spent ELSE 0)
         + SprintTime(Tail(issue_worklogs), sprint_data)

\* ProjectData.get_sprint_time_spent: issue_key, the entries of
\* sprint_data, and sprint_time_spent.
get_sprint_time_spent(iss, sprint_data) ==
    [c \in DOMAIN sprint_data \cup {"issue_key", "sprint_time_spent"} |->
        CASE c = "issue_key" -> iss.key
          [] c = "sprint_time_spent" -> SprintTime(iss.worklogs, sprint_data)
          [] OTHER -> sprint_data[c]]

\* The i-th character of a text.
Ch(s, i) == SubSeq(s, i, i)

\* The first position of a text holding one of the characters cs, else 0.
FirstOf(s, cs) ==
    IF \A i \in 1..Len(s) : Ch(s, i) \notin cs THEN 0
    ELSE CHOOSE i \in 1..Len(s) :
            Ch(s, i) \in cs /\ \A j \in 1..(i - 1) : Ch(s, j) \notin cs

\* name.split(" ")[-1]: the text after the last space, all of it when there
\* is no space, "" when it ends with a space.
LastToken(name) ==
    LET spaces == {i \in 1..Len(name) : Ch(name, i) = " "}
        last == IF spaces = {} THEN 0
                ELSE CHOOSE i \in spaces : \A j \in spaces : j <= i
    IN  SubSeq(name, last + 1, Len(name))

DigitChars == {"0", "1", "2", "3", "4", "5", "6", "7", "8", "9"}

DigitVal(c) ==
    CASE c = "0" -> 0 [] c = "1" -> 1 [] c = "2" -> 2 [] c = "3" -> 3
      [] c = "4" -> 4 [] c = "5" -> 5 [] c = "6" -> 6 [] c = "7" -> 7
      [] c = "8" -> 8 [] c = "9" -> 9

\* A digit part of a float literal: digits, single underscores between them.
IsDigitPart(s) ==
    /\ Len(s) > 0
    /\ \A i \in 1..Len(s) : Ch(s, i) \in DigitChars \cup {"_"}
    /\ Ch(s, 1) # "_" /\ Ch(s, Len(s)) # "_"
    /\ \A i \in 1..(Len(s) - 1) : ~(Ch(s, i) = "_" /\ Ch(s, i + 1) = "_")

\* The number of digits of a digit part.
NDigits(s) == Cardinality({i \in 1..Len(s) : Ch(s, i) \in DigitChars})

\* The number the first n characters of a digit part denote.
RECURSIVE NumUpTo(_, _)
NumUpTo(s, n) ==
    IF n = 0 THEN 0
    ELSE IF Ch(s, n) = "_" THEN NumUpTo(s, n - 1)
    ELSE NumUpTo(s, n - 1) * 10 + DigitVal(Ch(s, n))

\* The number a digit part (or "") denotes.
NumVal(s) == NumUpTo(s, Len(s))

RECURSIVE Pow10(_)
Pow10(n) == IF n = 0 THEN 1 ELSE 10 * Pow10(n - 1)

\* The lower case of the letters of "infinity" and "nan".
LowerCh(c) ==
    CASE c = "I" -> "i" [] c = "N" -> "n" [] c = "F" -> "f" [] c = "T" -> "t"
      [] c = "Y" -> "y" [] c = "A" -> "a" [] OTHER -> c

RECURSIVE Lower(_)
Lower(s) == IF Len(s) = 0 THEN "" ELSE LowerCh(Head(s)) \o Lower(Tail(s))

\* F applied to the value of v, the value computed once.
Once(v, F(_)) == CHOOSE r \in {F(x) : x \in {v}} : TRUE

\* A float as the pair mant * 10^exp with mant not a multiple of 10 (0 is
\* mant 0, exp 0); kind tells a number from an infinity and from nan.
RECURSIVE Finite(_, _)
Finite(mant, exp) ==
    IF mant = 0 THEN [kind |-> "num", mant |-> 0, exp |-> 0]
    ELSE IF mant % 10 = 0 THEN Finite(mant \div 10, exp + 1)
    ELSE [kind |-> "num", mant |-> mant, exp |-> exp]

Negated(f) == [f EXCEPT !.mant = 0 - f.mant]

\* The number an exponent [sign]digits denotes.
ExpVal(e) ==
    IF Len(e) > 0 /\ Ch(e, 1) = "-" THEN 0 - NumVal(Tail(e))
    ELSE IF Len(e) > 0 /\ Ch(e, 1) = "+" THEN NumVal(Tail(e))
    ELSE NumVal(e)

\* An exponent is [sign] and a digit part.
IsExponent(e) ==
    IF Len(e) > 0 /\ Ch(e, 1) \in {"+", "-"} THEN IsDigitPart(Tail(e))
    ELSE IsDigitPart(e)

\* float of the literal whole[.frac][e exponent]: dot is the position of the
\* point in the mantissa m (0 when it has none), marked tells whether the
\* literal has an exponent mark, e is the text after the mark.
FloatOfParts(m, dot, marked, e) ==
    LET whole == IF dot = 0 THEN m ELSE SubSeq(m, 1, dot - 1)
        frac == IF dot = 0 THEN "" ELSE SubSeq(m, dot + 1, Len(m))
    IN  IF /\ whole = "" \/ IsDigitPart(whole)
           /\ frac = "" \/ IsDigitPart(frac)
           /\ ~(whole = "" /\ frac = "")
           /\ marked => IsExponent(e)
        THEN Ok(Once(NumVal(whole) * Pow10(NDigits(frac)) + NumVal(frac),
                     LAMBDA mant :
                        Finite(mant, (IF marked THEN ExpVal(e) ELSE 0)
                                        - NDigits(frac))))
        ELSE Raise("ValueError")

\* float of a text without sign: inf, infinity or nan in any case, or a
\* decimal literal.
FloatUnsigned(body) ==
    IF Lower(body) \in {"inf", "infinity"}
    THEN Ok([kind |-> "inf", mant |-> 1, exp |-> 0])
    ELSE IF Lower(body) = "nan"
    THEN Ok([kind |-> "nan", mant |-> 0, exp |-> 0])
    ELSE Once(FirstOf(body, {"e", "E"}), LAMBDA epos :
            Once(IF epos = 0 THEN body ELSE SubSeq(body, 1, epos - 1),
                 LAMBDA m :
                    Once(FirstOf(m, {"."}), LAMBDA dot :
                        FloatOfParts(m, dot, epos # 0,
                                     SubSeq(body, epos + 1, Len(body))))))

\* float(text) of a text without blanks and within the range of a double:
\* [sign] then inf, infinity or nan in any case, or digits with an optional
\* point and an optional exponent; ValueError for any other text.
float(text) ==
    Once(text, LAMBDA t :
        IF Len(t) > 0 /\ Ch(t, 1) \in {"+", "-"}
        THEN Once(Once(Tail(t), LAMBDA body : FloatUnsigned(body)),
                  LAMBDA res :
                    IF Ch(t, 1) = "-" /\ res.err = NoError
                    THEN Ok(Negated(res.val))
                    ELSE res)
        ELSE FloatUnsigned(t))

\* ProjectData.get_issue_sprint_data, the entry of one sprint: the reads of
\* name, startDate, endDate, boardId and state, then the float of the last
\* word of the name.  A sprint without a date (None) has no such attribute:
\* reading it raises AttributeError.
SprintEntry(sprint) ==
    LET number == float(LastToken(sprint.name))
    IN  IF sprint.startDate = None \/ sprint.endDate = None
        THEN Raise("AttributeError")
        ELSE IF number.err # NoError THEN number
        ELSE Ok([sprint_name |-> sprint.name,
                 start_date |-> Val(sprint.startDate),
                 end_date |-> Val(sprint.endDate),
                 board_id |-> sprint.boardId,
                 sprint_state |-> sprint.state,
                 sprint_number |-> number.val])

\* ProjectData.get_issue_sprint_data
get_issue_sprint_data(iss) ==
    LET issue_sprints == Val(iss.customfield_10020)
    IN  Collect([i \in DOMAIN issue_sprints |-> SprintEntry(issue_sprints[i])])

\* ProjectData.get_issue_sprint_data_with_time_spent
get_issue_sprint_data_with_time_spent(iss) ==
    LET issue_sprint_data == get_issue_sprint_data(iss)
    IN  IF issue_sprint_data.err # NoError THEN issue_sprint_data
        ELSE Ok([i \in DOMAIN issue_sprint_data.val |->
                    get_sprint_time_spent(iss, issue_sprint_data.val[i])])

\* x.attr if x else None, for an optional sub-object x of an issue.
AttrOrNone(x, attr) == IF x = None THEN None ELSE Some(Val(x)[attr])

\* ProjectData.extract_issue_data.  timetracking is the raw mapping of the
\* field: None when it is empty, remainingEstimateSeconds when it has one,
\* AttributeError when it is not empty and has none.
extract_issue_data(iss) ==
    IF DOMAIN iss.timetracking # {}
       /\ "remainingEstimateSeconds" \notin DOMAIN iss.timetracking
    THEN Raise("AttributeError")
    ELSE Ok(
    [key |-> iss.key,
     id |-> iss.id,
     project |-> iss.project.key,
     issue_type |-> AttrOrNone(iss.issuetype, "name"),
     summary |-> iss.summary,
     assignee |-> AttrOrNone(iss.assignee, "displayName"),
     reporter |-> AttrOrNone(iss.reporter, "displayName"),
     priority |-> AttrOrNone(iss.priority, "name"),
     status |-> AttrOrNone(iss.status, "name"),
     resolution |-> AttrOrNone(iss.resolution, "name"),
     resolved |-> IF iss.resolution # None
                     /\ Val(iss.resolution).name \in {"Done", "DONE"}
                  THEN 1 ELSE 0,
     created |-> iss.created,
     updated |-> iss.updated,
     due_date |-> iss.duedate,
     total_time_spent |-> iss.timespent,
     total_time_estimate |-> iss.timeestimate,
     original_time_estimate |-> iss.timeoriginalestimate,
     remaining_time_estimate |->
        IF DOMAIN iss.timetracking # {}
        THEN Some(iss.timetracking.remainingEstimateSeconds)
        ELSE None])

\* sum(lists, []): the concatenation of a sequence of sequences.
RECURSIVE Flatten(_)
Flatten(lists) ==
    IF Len(lists) = 0 THEN <<>> ELSE Head(lists) \o Flatten(Tail(lists))

\* ProjectData.get_issue_and_sprint_data: the pair of all_issue_data and
\* all_sprint_data, or the first failure; the issue-level list is built
\* first.
get_issue_and_sprint_data(issues) ==
    LET all_issue_level_data ==
            Collect([i \in DOMAIN issues |-> extract_issue_data(issues[i])])
        all_sprint_level_data ==
            Collect([i \in DOMAIN issues |->
                        get_issue_sprint_data_with_time_spent(issues[i])])
    IN  IF all_issue_level_data.err # NoError THEN all_issue_level_data
        ELSE IF all_sprint_level_data.err # NoError THEN all_sprint_level_data
        ELSE Ok([all_issue_data |-> all_issue_level_data.val,
                 all_sprint_data |-> Flatten(all_sprint_level_data.val)])

\* Mutant of ReplaceNan: missing values are left as they are.
ReplaceNanKeep(v) == v

\* DataFrame.replace(np.nan, 0) on one value.
ReplaceNan(v) == IF v = None THEN Some(0) ELSE v

\* The rows of issue_df whose key is k, in order.
IssuesWithKey(issue_rows, k) == SelectSeq(issue_rows, LAMBDA r : r.key = k)

\* The columns merge_issue_and_sprint_data replaces NaN in.
TimeColumns ==
    {"total_time_spent", "total_time_estimate", "original_time_estimate",
     "remaining_time_estimate"}

\* One row of sprint_df.merge(issue_df, left_on="issue_key", right_on="key")
\* after drop("issue_key"), the rename of id to issue_id and the replace in
\* the four time columns.
MergedRow(s, i) ==
    [c \in (DOMAIN s \ {"issue_key"}) \cup (DOMAIN i \ {"id"}) \cup {"issue_id"} |->
        IF c = "issue_id" THEN i.id
        ELSE IF c \in DOMAIN s THEN s[c]
        ELSE IF c \in TimeColumns THEN ReplaceNan(i[c])
        ELSE i[c]]

\* ProjectData.merge_issue_and_sprint_data: the inner join in the order of
\* the sprint rows, as a table; the empty table when either side is empty.
merge_issue_and_sprint_data(all_issue_data, all_sprint_data) ==
    IF Len(all_issue_data) > 0 /\ Len(all_sprint_data) > 0
    THEN LET joined == Flatten([n \in DOMAIN all_sprint_data |->
                LET m == IssuesWithKey(all_issue_data, all_sprint_data[n].issue_key)
                IN  [j \in DOMAIN m |-> MergedRow(all_sprint_data[n], m[j])]])
         IN  IF Len(joined) = 0 THEN EmptyFrame ELSE list_to_df(joined).val
    ELSE EmptyFrame

\* --------------------------------------------------------- the tracker

\* Sprint-membership records of the issue snapshot pipeline.
S5 == [id |-> 5, name |-> Some("Sprint 5")]
S7 == [id |-> 7, name |-> Some("Sprint 7")]
S7b == [id |-> 7, name |-> Some("Sprint 7b")]

\* The fields every issue of the snapshot pipeline carries besides the ones
\* that vary below.
CommonFields ==
    [issuetype |-> Some([name |-> "Task"]), summary |-> Some("a"),
     assignee |-> None, reporter |-> Some([displayName |-> "Ann"]),
     priority |-> Some([name |-> "High"]), created |-> Some("t0"),
     updated |-> Some("t1"), duedate |-> None]

\* raw["fields"] of an issue: the common fields and the given ones.
Fields(summary, status, resolution, sprints) ==
    [f \in DOMAIN CommonFields
           \cup {"status", "resolution", "customfield_10020"} |->
        CASE f = "summary" -> summary
          [] f = "status" -> status
          [] f = "resolution" -> resolution
          [] f = "customfield_10020" -> sprints
          [] OTHER -> CommonFields[f]]

\* The issues the snapshot pipeline can meet: ABC-1 before and after it is
\* resolved, ABC-2 with two sprints of the same id and a summary reading
\* "NaN", ABC-3 with an empty and with a null sprint field.
SnapshotPayloads ==
    { [key |-> "ABC-1",
       fields |-> Fields(Some("a"), Some([name |-> "To Do"]), None,
                         Some(<<S5, S7>>))],
      [key |-> "ABC-1",
       fields |-> Fields(Some("a"), Some([name |-> "Done"]),
                         Some([name |-> "Done"]), Some(<<S7>>))],
      [key |-> "ABC-2",
       fields |-> Fields(Some("NaN"), None, None, Some(<<S7, S7b>>))],
      [key |-> "ABC-3",
       fields |-> Fields(None, Some([name |-> "To Do"]), None, Some(<<>>))],
      [key |-> "ABC-3",
       fields |-> Fields(None, Some([name |-> "To Do"]), None, None)] }

\* Sprints and worklogs of the time-tracking pipeline.  A sprint that has
\* not started has no dates; a sprint can have a name whose last word is no
\* number.
Sprint(name, start, end, st) ==
    [name |-> name, startDate |-> start, endDate |-> end, boardId |-> 1,
     state |-> st]
Sp1 == Sprint("Sprint 1", Some(1), Some(2), "closed")
Sp2 == Sprint("Sprint 2", Some(3), Some(3), "active")
SpFuture == Sprint("Sprint 3", None, None, "future")
SpNamed == Sprint("Hardening", Some(1), Some(2), "closed")
W(t, l, o) == [time_spent |-> t, started |-> [local |-> l, off |-> o]]

\* An issue with full data, as jira_connection.issue returns it.
FullData(key, id, sprints, worklogs, times, tracking, resolution) ==
    [key |-> key, id |-> id, project |-> [key |-> "PRJ"],
     issuetype |-> Some([name |-> "Task"]), summary |-> Some("a"),
     assignee |-> None, reporter |-> Some([displayName |-> "Ann"]),
     priority |-> Some([name |-> "High"]),
     status |-> Some([name |-> "To Do"]), resolution |-> resolution,
     created |-> Some("t0"), updated |-> Some("t1"), duedate |-> None,
     timespent |-> times[1], timeestimate |-> times[2],
     timeoriginalestimate |-> times[3], timetracking |-> tracking,
     worklogs |-> worklogs, customfield_10020 |-> sprints]

\* The raw mapping of a timetracking field without entries.
NoTracking == [c \in {} |-> 0]

\* The issues a project of the time-tracking pipeline can hold: PRJ-1 with
\* and without time fields, PRJ-2 without sprints, PRJ-3 in a sprint that
\* has no dates yet or whose name ends in no number, or with a timetracking
\* that has no remaining estimate.
SprintPayloads ==
    { FullData("PRJ-1", "10001", Some(<<Sp1>>), <<W(2, 2, 0), W(1, 0, 0)>>,
               <<Some(3), None, Some(2)>>,
               [remainingEstimateSeconds |-> 1], None),
      FullData("PRJ-1", "10001", Some(<<Sp1, Sp2>>),
               <<W(2, 2, 0), W(1, 2, -1)>>,
               <<None, None, None>>, NoTracking, Some([name |-> "Done"])),
      FullData("PRJ-2", "10002", None, <<>>,
               <<None, None, None>>, NoTracking, None),
      FullData("PRJ-3", "10003", Some(<<SpFuture>>), <<>>,
               <<Some(1), Some(1), Some(1)>>,
               [remainingEstimateSeconds |-> 1], None),
      FullData("PRJ-3", "10003", Some(<<SpNamed>>), <<>>,
               <<Some(1), Some(1), Some(1)>>,
               [remainingEstimateSeconds |-> 1], None),
      FullData("PRJ-3", "10003", Some(<<Sp1>>), <<>>,
               <<Some(1), Some(1), Some(1)>>,
               [originalEstimateSeconds |-> 1], None) }

Payloads(j) == IF j = "issues" THEN SnapshotPayloads ELSE SprintPayloads

\* An issue of the tracker: a payload and the unit (configured query, or
\* project) whose search returns it.
TrackerIssues(j) == {[unit |-> u, data |-> d] : u \in Units, d \in Payloads(j)}

\* The tracker's contents: at most MaxIssues issues with distinct keys, in
\* the order a search returns them.
Trackers(j) ==
    UNION {{t \in [1..n -> TrackerIssues(j)] :
                \A a, b \in 1..n : a # b => t[a].data.key # t[b].data.key}
            : n \in 0..MaxIssues}

\* The maxResults of Report.load_jira_issue and of
\* ProjectData.get_project_issues.
ReportMaxResults == 1000
ProjectMaxResults == 20

\* search_issues for unit u: the matching issues, in order, at most
\* maxResults of them.
Search(t, u, maxResults) ==
    LET hits == SelectSeq(t, LAMBDA x : x.unit = u)
        n == IF Len(hits) <= maxResults THEN Len(hits) ELSE maxResults
    IN  [i \in 1..n |-> hits[i].data]

\* jira_connection.issue(id): the tracker's issue of that key, with full data.
FullIssue(t, k) == (CHOOSE x \in Range(t) : x.data.key = k).data

\* The truth value of a customfield_10020: false for None and for [].
Truthy(o) == o # None /\ Len(Val(o)) > 0

\* The rows a table can hold before the first run: nothing, or a stale row
\* of the first issue.
StaleRows(j) ==
    IF j = "issues"
    THEN {[issuetype |-> Some("Task"), summary |-> Some("a"),
           assignee |-> None, reporter |-> Some("Ann"),
           priority |-> Some("Low"), status |-> Some("Old"),
           resolution |-> 0, created |-> Some("t0"), updated |-> Some("t0"),
           duedate |-> None, sprint |-> Some("Sprint 5"),
           all_sprints |-> "Sprint 5", key |-> "ABC-1"]}
    ELSE {[key |-> "PRJ-1", issue_id |-> "10001", project |-> "PRJ",
           issue_type |-> Some("Task"), summary |-> Some("a"),
           assignee |-> None, reporter |-> Some("Ann"),
           priority |-> Some("Low"), status |-> Some("To Do"),
           resolution |-> None, resolved |-> 0, created |-> Some("t0"),
           updated |-> Some("t0"), due_date |-> None,
           sprint_name |-> "Sprint 1", start_date |-> 1, end_date |-> 2,
           board_id |-> 1, sprint_state |-> "active",
           sprint_number |-> [kind |-> "num", mant |-> 1, exp |-> 0],
           sprint_time_spent |-> 1,
           total_time_spent |-> Some(1), total_time_estimate |-> Some(0),
           original_time_estimate |-> Some(0),
           remaining_time_estimate |-> Some(0)]}

InitialSinks(j) == {{}, StaleRows(j)}

\* The conflict columns of the two pipelines' upserts.
Conflicts(j) == IF j = "issues" THEN {"key"} ELSE {"key", "sprint_name"}

\* ------------------------------------------------------ the batch jobs

VARIABLES
    job,          \* "issues": refresh_jira_data; "sprints": refresh_sprint_data
    tracker,      \* the issues the tracker holds
    sink,         \* the table the job upserts into: a set of rows
    pc,           \* the call the run is about to make
    unit,         \* position in project_queries['filters'] / project_keys
    issues,       \* Report.issues / ProjectData.issues of the current unit
    fidx,         \* position of get_issues_from_search_results in issues
    populated,    \* ProjectData.populated_issues
    data,         \* rows / (all_issue_data, all_sprint_data) of the unit
    frame,        \* jira_data / ProjectData.project_data
    rows,         \* the rows of dataframe_to_db
    widx,         \* position of dataframe_to_db in rows
    err,          \* the exception raised while processing the unit
    log,          \* what the run has logged
    trace,        \* the tracker calls, transformations and writes of the unit
    before,       \* the table when dataframe_to_db was called
    faults,       \* a tracker call, the read of the filters or a write failed
    rerun,        \* the run repeats a fault-free run on the same tracker
    prior,        \* the table when the run started
    lastWritten,  \* per conflict key, the last row written
    probe         \* input and output of a helper applied on its own

vars == <<job, tracker, sink, pc, unit, issues, fidx, populated, data, frame,
          rows, widx, err, log, trace, before, faults, rerun, prior,
          lastWritten, probe>>

unitVars == <<issues, fidx, populated, data, frame, rows, widx, before>>
runVars == <<faults, rerun, prior>>

Jobs == {"issues", "sprints"}
NoProbe == [fn |-> "none"]

\* Mutant of NextStage: the time-tracking pipeline goes back to the tracker
\* after its writes, as a pipeline that streams issue by issue would.
NextStageStreaming(j, stage) ==
    IF j = "issues"
    THEN CASE stage = "fetch" -> "transform"
           [] stage = "transform" -> "flatten"
           [] stage = "flatten" -> "upload"
           [] stage = "upload" -> "write"
           [] stage = "write" -> "loop"
    ELSE CASE stage = "fetch" -> "refresh"
           [] stage = "refresh" -> "fetchfull"
           [] stage = "fetchfull" -> "transform"
           [] stage = "transform" -> "merge"
           [] stage = "merge" -> "save"
           [] stage = "save" -> "upload"
           [] stage = "upload" -> "write"
           [] stage = "write" -> "fetchfull"

\* The order of the calls of pull_data and of ProjectData.__init__ followed
\* by ProjectData.refresh_sprint_data ("refresh" is its entry); "loop" is
\* the return to the for loop of the entry point.
NextStage(j, stage) ==
    IF j = "issues"
    THEN CASE stage = "fetch" -> "transform"
           [] stage = "transform" -> "flatten"
           [] stage = "flatten" -> "upload"
           [] stage = "upload" -> "write"
           [] stage = "write" -> "loop"
    ELSE CASE stage = "fetch" -> "refresh"
           [] stage = "refresh" -> "fetchfull"
           [] stage = "fetchfull" -> "transform"
           [] stage = "transform" -> "merge"
           [] stage = "merge" -> "save"
           [] stage = "save" -> "upload"
           [] stage = "upload" -> "write"
           [] stage = "write" -> "loop"

\* No run has started.
Quiet ==
    /\ pc = "idle"
    /\ unit = 0
    /\ issues = <<>> /\ fidx = 1 /\ populated = <<>> /\ data = <<>>
    /\ frame = EmptyFrame /\ rows = <<>> /\ widx = 1 /\ before = {}
    /\ err = NoError /\ log = <<>> /\ trace = <<>>
    /\ faults = FALSE /\ rerun = FALSE /\ prior = {}
    /\ lastWritten = {}

Init ==
    /\ job \in Jobs
    /\ tracker \in Trackers(job)
    /\ sink \in InitialSinks(job)
    /\ Quiet
    /\ probe = NoProbe

\* An exception nobody catches: the entry points have no try around the
\* body of their loop, so the exception ends the process.
Uncaught(e) ==
    /\ err' = e
    /\ pc' = "aborted"

\* The entry point is invoked with the tracker holding t, up to its loop.
\* refresh_jira_data logs, reads filters.json (the file can be missing) and
\* takes its 'filters' entry (the entry can be missing).  refresh_sprint_data
\* connects and lists the projects, a tracker call that can fail, and
\* get_project_keys logs their number.
Begin(t) ==
    /\ tracker' = t
    /\ unit' = 0
    /\ issues' = <<>> /\ fidx' = 1 /\ populated' = <<>> /\ data' = <<>>
    /\ frame' = EmptyFrame /\ rows' = <<>> /\ widx' = 1 /\ before' = {}
    /\ rerun' = (pc \in {"done", "aborted"} /\ ~faults)
    /\ prior' = sink
    /\ \/ /\ pc' = "loop"
          /\ err' = NoError
          /\ faults' = FALSE
          /\ IF job = "issues"
             THEN /\ log' = <<"Refreshing jira_reporting data for all projects">>
                  /\ trace' = <<>>
             ELSE /\ log' = <<"Found projects">>
                  /\ trace' = <<"fetch">>
       \/ /\ job = "issues"
          /\ \E e \in {"FileNotFoundError", "KeyError"} : Uncaught(e)
          /\ faults' = TRUE
          /\ log' = <<"Refreshing jira_reporting data for all projects">>
          /\ trace' = <<>>
       \/ /\ job = "sprints"
          /\ Uncaught("JIRAError")
          /\ faults' = TRUE
          /\ log' = <<>>
          /\ trace' = <<"fetch">>
    /\ UNCHANGED <<job, sink, lastWritten, probe>>

\* The first run, or a run on the tracker as the run before read it.
StartRun ==
    /\ pc \in {"idle", "done", "aborted"}
    /\ Begin(tracker)

\* After a run the process is gone and the tracker is edited: what it holds
\* is open until the next run reads it.
TrackerEdited ==
    /\ pc \in {"done", "aborted"}
    /\ pc' = "edited"
    /\ tracker' = <<>>
    /\ unit' = 0
    /\ issues' = <<>> /\ fidx' = 1 /\ populated' = <<>> /\ data' = <<>>
    /\ frame' = EmptyFrame /\ rows' = <<>> /\ widx' = 1 /\ before' = {}
    /\ err' = NoError /\ trace' = <<>> /\ log' = <<>>
    /\ rerun' = FALSE /\ faults' = FALSE /\ prior' = {}
    /\ UNCHANGED <<job, sink, lastWritten, probe>>

\* A run after the tracker's contents have changed.
StartRunAfterChange ==
    /\ pc = "edited"
    /\ \E t \in Trackers(job) : Begin(t)

\* The for loop of the entry point takes the next query / project.
NextUnit ==
    /\ pc = "loop" /\ unit < NumUnits
    /\ unit' = unit + 1
    /\ pc' = "fetch"
    /\ issues' = <<>> /\ fidx' = 1 /\ populated' = <<>> /\ data' = <<>>
    /\ frame' = EmptyFrame /\ rows' = <<>> /\ widx' = 1 /\ before' = {}
    /\ err' = NoError /\ trace' = <<>>
    /\ UNCHANGED <<job, tracker, sink, log, runVars, lastWritten, probe>>

\* The for loop of the entry point is exhausted.
Finish ==
    /\ pc = "loop" /\ unit = NumUnits
    /\ pc' = "done"
    /\ log' = IF job = "issues" THEN Append(log, "Data refresh complete.")
              ELSE log
    /\ UNCHANGED <<job, tracker, sink, unit, unitVars, err, trace, runVars,
                   lastWritten, probe>>

\* pull_data: the two debug lines, Report(query_filter) with the search of
\* the tracker, and the log of the number of issues.
SnapshotFetch ==
    /\ job = "issues" /\ pc = "fetch"
    /\ trace' = Append(trace, "fetch")
    /\ \/ /\ issues' = Search(tracker, unit, ReportMaxResults)
          /\ log' = log \o <<"Report name", "JQL filter", "Loaded issues">>
          /\ pc' = NextStage(job, "fetch")
          /\ UNCHANGED <<err, faults>>
       \/ /\ Uncaught("JIRAError")
          /\ faults' = TRUE
          /\ log' = log \o <<"Report name", "JQL filter">>
          /\ UNCHANGED issues
    /\ UNCHANGED <<job, tracker, sink, unit, fidx, populated, data, frame,
                   rows, widx, before, rerun, prior, lastWritten,
                   probe>>

\* pull_data: rows = get_relevant_issue_data(jira_report)
SnapshotTransform ==
    /\ job = "issues" /\ pc = "transform"
    /\ trace' = Append(trace, "transform")
    /\ LET res == get_relevant_issue_data(issues)
       IN  IF res.err = NoError
           THEN data' = res.val /\ pc' = NextStage(job, "transform")
                /\ UNCHANGED err
           ELSE Uncaught(res.err) /\ UNCHANGED data
    /\ UNCHANGED <<job, tracker, sink, unit, issues, fidx, populated, frame,
                   rows, widx, before, log, runVars, lastWritten, probe>>

\* pull_data: list_to_df, the rename of last_sprint, and insert_cols.
SnapshotFlatten ==
    /\ job = "issues" /\ pc = "flatten"
    /\ trace' = Append(trace, "transform")
    /\ LET res == list_to_df(data)
       IN  IF res.err = NoError
           THEN /\ frame' = Rename(res.val, "last_sprint", "sprint")
                /\ pc' = NextStage(job, "flatten")
                /\ UNCHANGED <<err, log>>
           ELSE /\ log' = Append(log, "No data found for this query")
                /\ Uncaught(res.err)
                /\ UNCHANGED frame
    /\ UNCHANGED <<job, tracker, sink, unit, issues, fidx, populated, data,
                   rows, widx, before, runVars, lastWritten, probe>>

\* dataframe_to_db up to its loop: df_to_rows, the log line, db_connection.
BeginUpload ==
    /\ pc = "upload"
    /\ rows' = df_to_rows(frame)
    /\ widx' = 1
    /\ before' = sink
    /\ log' = Append(log, "Uploading rows to db")
    /\ pc' = NextStage(job, "upload")
    /\ UNCHANGED <<job, tracker, sink, unit, issues, fidx, populated, data,
                   frame, err, trace, runVars, lastWritten, probe>>

\* dataframe_to_db: one iteration of the loop, a write_data that succeeds
\* or raises.  pull_data catches the exception, logs it and logs a warning;
\* ProjectData.save_to_db does not catch it.
WriteRow ==
    /\ pc = "write" /\ widx <= Len(rows)
    /\ trace' = Append(trace, "write")
    /\ \/ /\ sink' = write_data(sink, rows[widx], Conflicts(job),
                                DOMAIN rows[widx])
          /\ lastWritten' =
                (lastWritten \ Conflicting(lastWritten, rows[widx], Conflicts(job)))
                    \cup {rows[widx]}
          /\ widx' = widx + 1
          /\ UNCHANGED <<pc, err, log, faults>>
       \/ /\ sink' = SinkAfterFailure(before, sink)
          /\ faults' = TRUE
          /\ err' = "DBError"
          /\ IF job = "issues"
             THEN /\ log' = log \o <<"DBError", "Failed to upload data to db">>
                  /\ pc' = "loop"
             ELSE /\ pc' = "aborted"
                  /\ UNCHANGED log
          /\ UNCHANGED <<widx, lastWritten>>
    /\ UNCHANGED <<job, tracker, unit, issues, fidx, populated, data, frame,
                   rows, before, rerun, prior, probe>>

\* dataframe_to_db: the loop is exhausted, the call returns.
UploadDone ==
    /\ pc = "write" /\ widx > Len(rows)
    /\ pc' = NextStage(job, "write")
    /\ UNCHANGED <<job, tracker, sink, unit, unitVars, err, log, trace,
                   runVars, lastWritten, probe>>

\* ProjectData.__init__: get_project_issues logs, then searches the
\* tracker.
SprintSearch ==
    /\ job = "sprints" /\ pc = "fetch"
    /\ trace' = Append(trace, "fetch")
    /\ log' = Append(log, "Fetching issues")
    /\ \/ /\ LET found == Search(tracker, unit, ProjectMaxResults)
             IN  issues' = [i \in DOMAIN found |-> found[i].key]
          /\ pc' = NextStage(job, "fetch")
          /\ UNCHANGED <<err, faults>>
       \/ /\ Uncaught("JIRAError")
          /\ faults' = TRUE
          /\ UNCHANGED issues
    /\ UNCHANGED <<job, tracker, sink, unit, fidx, populated, data, frame,
                   rows, widx, before, rerun, prior, lastWritten,
                   probe>>

\* ProjectData.refresh_sprint_data up to the loop of
\* get_issues_from_search_results: the two log lines.
SprintRefresh ==
    /\ job = "sprints" /\ pc = "refresh"
    /\ log' = log \o <<"Refreshing sprint data", "Collecting data">>
    /\ pc' = NextStage(job, "refresh")
    /\ UNCHANGED <<job, tracker, sink, unit, unitVars, err, trace, runVars,
                   lastWritten, probe>>

\* get_issues_from_search_results: one iteration of the loop, the fetch of
\* one issue with full data, kept when it has a sprint.
SprintFetchFull ==
    /\ job = "sprints" /\ pc = "fetchfull" /\ fidx <= Len(issues)
    /\ trace' = Append(trace, "fetch")
    /\ \/ /\ LET issue_with_data == FullIssue(tracker, issues[fidx])
             IN  populated' = IF Truthy(issue_with_data.customfield_10020)
                              THEN Append(populated, issue_with_data)
                              ELSE populated
          /\ fidx' = fidx + 1
          /\ UNCHANGED <<pc, err, faults>>
       \/ /\ Uncaught("JIRAError")
          /\ faults' = TRUE
          /\ UNCHANGED <<fidx, populated>>
    /\ UNCHANGED <<job, tracker, sink, unit, issues, data, frame, rows, widx,
                   before, log, rerun, prior, lastWritten, probe>>

\* get_issues_from_search_results: the loop is exhausted.
SprintFetchDone ==
    /\ job = "sprints" /\ pc = "fetchfull" /\ fidx > Len(issues)
    /\ pc' = NextStage(job, "fetchfull")
    /\ UNCHANGED <<job, tracker, sink, unit, unitVars, err, log, trace,
                   runVars, lastWritten, probe>>

\* ProjectData.get_issue_and_sprint_data
SprintExtract ==
    /\ job = "sprints" /\ pc = "transform"
    /\ trace' = Append(trace, "transform")
    /\ LET res == get_issue_and_sprint_data(populated)
       IN  IF res.err = NoError
           THEN data' = res.val /\ pc' = NextStage(job, "transform")
                /\ UNCHANGED err
           ELSE Uncaught(res.err) /\ UNCHANGED data
    /\ UNCHANGED <<job, tracker, sink, unit, issues, fidx, populated, frame,
                   rows, widx, before, log, runVars, lastWritten, probe>>

\* ProjectData.merge_issue_and_sprint_data
SprintMerge ==
    /\ job = "sprints" /\ pc = "merge"
    /\ trace' = Append(trace, "transform")
    /\ frame' = merge_issue_and_sprint_data(data.all_issue_data,
                                            data.all_sprint_data)
    /\ pc' = NextStage(job, "merge")
    /\ UNCHANGED <<job, tracker, sink, unit, issues, fidx, populated, data,
                   rows, widx, before, err, log, runVars, lastWritten, probe>>

\* ProjectData.save_to_db: the upload when project_data has rows, else a
\* log line.
SprintSave ==
    /\ job = "sprints" /\ pc = "save"
    /\ IF NRows(frame) > 0
       THEN pc' = NextStage(job, "save") /\ UNCHANGED log
       ELSE pc' = "loop" /\ log' = Append(log, "No new data")
    /\ UNCHANGED <<job, tracker, sink, unit, unitVars, err, trace, runVars,
                   lastWritten, probe>>

Next ==
    \/ StartRun
    \/ TrackerEdited
    \/ StartRunAfterChange
    \/ NextUnit
    \/ Finish
    \/ SnapshotFetch
    \/ SnapshotTransform
    \/ SnapshotFlatten
    \/ BeginUpload
    \/ WriteRow
    \/ UploadDone
    \/ SprintSearch
    \/ SprintRefresh
    \/ SprintFetchFull
    \/ SprintFetchDone
    \/ SprintExtract
    \/ SprintMerge
    \/ SprintSave

Spec == Init /\ [][Next]_vars

\* ----------------------------------------- the helpers applied on their own

mainVars == <<job, tracker, sink, pc, unit, issues, fidx, populated, data,
              frame, rows, widx, err, log, trace, before, faults, rerun,
              prior, lastWritten>>

\* The sequences over S of length at most n.
SeqsUpTo(S, n) == UNION {[1..k -> S] : k \in 0..n}

\* Sprint-membership records: an id and a name, the name possibly missing.
SprintRecords ==
    {[id |-> i, name |-> n] :
        i \in {5, 7}, n \in {Some("Sprint 5"), Some("Sprint 7"), None}}

\* The values of customfield_10020 handed to the label resolver.
LabelInputs == {None} \cup {Some(l) : l \in SeqsUpTo(SprintRecords, MaxSprints)}

InitLabel ==
    /\ job = "issues" /\ tracker = <<>> /\ sink = {}
    /\ Quiet
    /\ probe \in {[fn |-> "label", in |-> i, lastDone |-> FALSE,
                   allDone |-> FALSE, last |-> Ok(None), all |-> Ok("")]
                    : i \in LabelInputs}

\* A call of Report.get_last_sprint
ApplyLastSprint ==
    /\ probe.fn = "label" /\ ~probe.lastDone
    /\ probe' = [probe EXCEPT !.lastDone = TRUE,
                              !.last = get_last_sprint(probe.in)]
    /\ UNCHANGED mainVars

\* A call of Report.get_all_sprint_data
ApplyAllSprints ==
    /\ probe.fn = "label" /\ ~probe.allDone
    /\ probe' = [probe EXCEPT !.allDone = TRUE,
                              !.all = get_all_sprint_data(probe.in)]
    /\ UNCHANGED mainVars

NextLabel ==
    \/ ApplyLastSprint
    \/ ApplyAllSprints

SpecLabel == InitLabel /\ [][NextLabel]_vars

\* Worklog entries: seconds spent, and a started text of wall-clock time
\* local at UTC offset off.
TimeSpentValues == {1, 2}
Offsets == {-1, 0, 1}
Worklogs ==
    {W(t, l, o) : t \in TimeSpentValues, l \in 0..MaxTime, o \in Offsets}

\* Sprint descriptors as get_issue_sprint_data builds them.
SprintWindows ==
    {SprintEntry(Sprint("Sprint 1", Some(a), Some(b), "closed")).val :
        a \in 0..MaxTime, b \in 0..MaxTime}

InitWindow ==
    /\ job = "sprints" /\ tracker = <<>> /\ sink = {}
    /\ Quiet
    /\ probe \in {[fn |-> "window",
                   iss |-> [key |-> "PRJ-1", worklogs |-> w],
                   sprint |-> sd, done |-> FALSE, out |-> None]
                    : w \in SeqsUpTo(Worklogs, MaxWorklogs),
                      sd \in {x \in SprintWindows : x.start_date <= x.end_date}}

\* A call of ProjectData.get_sprint_time_spent
ApplySprintTime ==
    /\ probe.fn = "window" /\ ~probe.done
    /\ probe' = [probe EXCEPT !.done = TRUE,
                    !.out = Some(get_sprint_time_spent(probe.iss, probe.sprint))]
    /\ UNCHANGED mainVars

NextWindow == ApplySprintTime

SpecWindow == InitWindow /\ [][NextWindow]_vars

\* ------------------------------------------------------------ the claims

\* Two rows have the same conflict key.
SameKey(r, q) == \A c \in Conflicts(job) : r[c] = q[c]

\* The number of events e in the trace of the current unit.
Count(e) == Cardinality({i \in DOMAIN trace : trace[i] = e})

\* C1: a failure raised at any stage while processing one query / project
\* is caught at the top level and does not end the run: the run is never
\* ended by the exception of a unit.
C1_FailureDoesNotAbortRun == (err # NoError /\ unit > 0) => (pc # "aborted")

\* C2: when a configured query yields no rows, list_to_df raises, a warning
\* is logged, no write is issued for the query, and the run goes on with the
\* remaining queries.
C2_EmptyQueryIsSkipped ==
    (job = "issues" /\ err = "Exception") =>
        /\ log[Len(log)] = "No data found for this query"
        /\ Count("write") = 0
        /\ pc # "aborted"

\* C3: a run that repeats a run on the same tracker contents, no tracker
\* call or write failing in either, ends with the table as the first run
\* left it; and a row written again under its key leaves exactly one stored
\* row for that key, holding the row's values.
C3_UpsertIdempotent ==
    /\ (pc \in {"done", "aborted"} /\ rerun /\ ~faults) => sink = prior
    /\ (rerun /\ ~faults) =>
          \A i \in 1..(widx - 1) :
              (\A n \in (i + 1)..(widx - 1) : ~SameKey(rows[n], rows[i]))
                  => Conflicting(sink, rows[i], Conflicts(job)) = {rows[i]}

C3_Witness ==
    /\ pc = "done" /\ rerun /\ ~faults
    /\ widx > 2
    /\ sink = prior

\* C4: the table never holds two rows of one conflict key, the stored row of
\* every key the job has written is the last row written for it, and no step
\* removes a key from the table.
C4_OneRowPerKey ==
    /\ [](/\ \A r, q \in sink : SameKey(r, q) => r = q
          /\ lastWritten \subseteq sink)
    /\ [][\A r \in sink : \E q \in sink' : SameKey(r, q)]_vars

C4_Witness ==
    \E r \in lastWritten, q \in prior : SameKey(r, q) /\ r # q /\ r \in sink

\* The table after the rows written are upserted into the table start: the
\* rows of start whose key was not written, and for every key written the
\* last row written for it.
TableAfter(start, written) ==
    {r \in start : \A i \in DOMAIN written : ~SameKey(r, written[i])}
    \cup {written[i] : i \in {n \in DOMAIN written :
                \A m \in (n + 1)..Len(written) : ~SameKey(written[m], written[n])}}

\* C5: the upload writes the rows one by one in row order, each write on its
\* own: when the write of row k fails, the table holds the k-1 rows written
\* before it, and row k and the rows after it are not written.
C5_PartialWritesStay ==
    (pc = "write" \/ err = "DBError" \/ Count("write") > 0) =>
        /\ sink = TableAfter(before, SubSeq(rows, 1, widx - 1))
        /\ Count("write") = (widx - 1) + (IF err = "DBError" THEN 1 ELSE 0)
        /\ (err = "DBError") => (pc # "write" /\ widx <= Len(rows))

C5_Witness ==
    /\ err = "DBError" /\ widx = 2 /\ Len(rows) >= 2
    /\ sink # before
    /\ rows[1] \in sink /\ rows[2] \notin sink

\* ", ".join, built from the left.
RECURSIVE JoinedUpTo(_, _)
JoinedUpTo(lst, n) ==
    IF n = 0 THEN ""
    ELSE IF n = 1 THEN Str(lst[1].name)
    ELSE JoinedUpTo(lst, n - 1) \o ", " \o Str(lst[n].name)

\* C6: for a non-empty list, get_last_sprint returns the name of a record
\* whose id is the greatest of the list, the first such record when several
\* share it; get_all_sprint_data returns the names joined by ", " in input
\* order.
C6_LastSprintHasMaxId ==
    (probe.fn = "label" /\ probe.in # None) =>
        LET lst == Val(probe.in)
        IN  /\ (probe.lastDone /\ Len(lst) > 0) =>
                /\ probe.last.err = NoError
                /\ \E i \in DOMAIN lst :
                      /\ \A n \in DOMAIN lst : lst[n].id <= lst[i].id
                      /\ \A n \in 1..(i - 1) : lst[n].id < lst[i].id
                      /\ probe.last.val = lst[i].name
            /\ probe.allDone =>
                /\ probe.all.err = NoError
                /\ probe.all.val = JoinedUpTo(lst, Len(lst))

C6_Witness ==
    /\ probe.fn = "label" /\ probe.lastDone /\ probe.allDone
    /\ probe.in = Some(<<S5, S7>>)
    /\ probe.last.val = Some("Sprint 7")
    /\ probe.all.val = "Sprint 5, Sprint 7"

\* C7: for an issue without sprint memberships get_last_sprint raises; the
\* snapshot pipeline then builds no rows for the query, and no row with a
\* null last sprint is ever built or stored.
C7_NoNullLastSprint ==
    (job = "issues") =>
        /\ \A i \in DOMAIN data : data[i].last_sprint # None
        /\ \A i \in DOMAIN rows : rows[i].sprint # None
        /\ \A r \in sink : r.sprint # None
        /\ (/\ Count("transform") > 0
            /\ \E i \in DOMAIN issues :
                  ~Truthy(issues[i].fields.customfield_10020)) =>
              /\ pc = "aborted"
              /\ err \in {"ValueError", "TypeError"}
              /\ data = <<>>
              /\ Count("write") = 0

C7_Witness ==
    /\ job = "issues" /\ pc = "aborted" /\ err = "ValueError"
    /\ Len(issues) = 2
    /\ Truthy(issues[1].fields.customfield_10020)
    /\ issues[2].fields.customfield_10020 = Some(<<>>)

\* The sum of time_spent over the worklogs at the positions in S.
RECURSIVE SumAt(_, _)
SumAt(wl, S) ==
    IF S = {} THEN 0
    ELSE LET i == CHOOSE x \in S : TRUE
         IN  wl[i].time_spent + SumAt(wl, S \ {i})

\* C8: sprint_time_spent is the sum of time_spent over exactly the worklogs
\* whose started instant, in UTC, is at or after start_date and at or before
\* end_date; it is 0 when there is none.
C8_SprintTimeIsWindowSum ==
    (probe.fn = "window" /\ probe.done) =>
        LET wl == probe.iss.worklogs
            inside == {i \in DOMAIN wl :
                          /\ probe.sprint.start_date
                                <= wl[i].started.local - wl[i].started.off
                          /\ wl[i].started.local - wl[i].started.off
                                <= probe.sprint.end_date}
        IN  Val(probe.out).sprint_time_spent = SumAt(wl, inside)

C8_Witness ==
    /\ probe.fn = "window" /\ probe.done
    /\ Len(probe.iss.worklogs) = 2
    /\ LET w1 == probe.iss.worklogs[1]
           w2 == probe.iss.worklogs[2]
       IN  /\ w1.started.off # 0
           /\ w1.started.local - w1.started.off = probe.sprint.start_date
           /\ w2.started.local - w2.started.off = probe.sprint.end_date + 1
           /\ w2.started.local = probe.sprint.end_date
           /\ Val(probe.out).sprint_time_spent = w1.time_spent

\* The field of an issue that extract_issue_data reads into column c.
TimeField(iss, c) ==
    CASE c = "total_time_spent" -> iss.timespent
      [] c = "total_time_estimate" -> iss.timeestimate
      [] c = "original_time_estimate" -> iss.timeoriginalestimate
      [] c = "remaining_time_estimate" ->
            IF DOMAIN iss.timetracking = {} THEN None
            ELSE Some(iss.timetracking.remainingEstimateSeconds)

\* C9: no row the time-tracking pipeline uploads or has written has a null
\* in one of the four time columns, and a column is 0 where the tracker
\* gave no value for the issue.
C9_TimeColumnsNeverNull ==
    (job = "sprints") =>
        /\ \A r \in lastWritten : \A c \in TimeColumns : r[c] # None
        /\ \A i \in DOMAIN rows : \A c \in TimeColumns :
              /\ rows[i][c] # None
              /\ \A n \in DOMAIN populated :
                    (populated[n].key = rows[i].key
                        /\ TimeField(populated[n], c) = None)
                    => rows[i][c] = Some(0)

C9_Witness ==
    /\ job = "sprints"
    /\ \E r \in lastWritten :
          /\ r \in sink
          /\ \A c \in TimeColumns : r[c] = Some(0)
          /\ \E n \in DOMAIN populated :
                /\ populated[n].key = r.key
                /\ \A c \in TimeColumns : TimeField(populated[n], c) = None

\* Fetch comes before Transform, Transform before Persist.
Rank(e) == CASE e = "fetch" -> 1 [] e = "transform" -> 2 [] e = "write" -> 3

\* C10: within one query / project every tracker call comes before every
\* transformation and every transformation before every write; when the
\* first write is issued every issue of the project has been fetched.
C10_StagesInOrder ==
    /\ \A i, n \in DOMAIN trace : i < n => Rank(trace[i]) <= Rank(trace[n])
    /\ (job = "sprints" /\ Count("write") > 0) =>
          /\ fidx > Len(issues)
          /\ Count("fetch") = 1 + Len(issues)
    /\ (job = "issues" /\ Count("write") > 0) => Count("fetch") = 1

C10_Witness ==
    /\ job = "sprints"
    /\ Len(issues) = 2
    /\ Count("fetch") = 3 /\ Count("transform") = 2 /\ Count("write") >= 2

====
